---------------------------- MODULE Spec2Model ----------------------------
(***************************************************************************)
(* Stage progression engine of cognillm: StageManager, Evaluator and the   *)
(* Azure chat Client the Evaluator talks through.                          *)
(*                                                                         *)
(* Python objects are modelled as records, Python scalars as records       *)
(* [type, repr] so that `x is True` and `x is None` are plain equalities.  *)
(* A raised exception is the field exc of an operation's outcome; None     *)
(* stands for "no exception".  Every operation is an operator from the     *)
(* object's state (self) and the operation's inputs to its outcome, and    *)
(* one action applies it atomically: the program is single-threaded and    *)
(* synchronous.                                                             *)
(***************************************************************************)
EXTENDS Integers, Sequences, FiniteSets, TLC

VARIABLES
    stage_config,           \* StageManager.stage_config: Stage -> EvaluationConfig
    current_stage,          \* StageManager.current_stage
    current_message_index,  \* StageManager.current_message_index
    stage_history,          \* StageManager.stage_history: Stage -> {start, end, messages}
    chat_prompt,            \* Client.chat_prompt of each evaluation client
    initial_stage,          \* constructor argument initial_stage
    message_index,          \* constructor argument message_index
    calls,                  \* number of handle_message_add calls made so far
    ops,                    \* number of operations made so far
    last,                   \* what the last operation was given and did
    prompts,                \* the files under evaluators/prompts
    evaluator,              \* the Evaluator, once its construction was attempted
    message_log,            \* the handle_message_add calls made so far, in order
    brain_client,           \* CogniLLM.brain_client.chat_prompt
    message_generator_client, \* CogniLLM.message_generator_client.chat_prompt
    current_cognitive_model,  \* CogniLLM.current_cognitive_model
    turns,                  \* number of CogniLLM operations made so far
    turn                    \* what the last CogniLLM operation was given and did

vars == <<stage_config, current_stage, current_message_index, stage_history,
          chat_prompt, initial_stage, message_index, calls, ops, last,
          prompts, evaluator, message_log,
          brain_client, message_generator_client, current_cognitive_model,
          turns, turn>>

\* the variables of the CogniLLM and those of the StageManager and Evaluator
cogni_vars == <<brain_client, message_generator_client, current_cognitive_model,
                turns, turn>>
stage_vars == <<stage_config, current_stage, current_message_index, stage_history,
                chat_prompt, initial_stage, message_index, calls, ops, last,
                prompts, evaluator, message_log>>

----------------------------------------------------------------------------
(* Bounds of the model *)

\* operations made on one StageManager
MaxOps == 2
MaxTurns == 2

\* the messages a caller records
Messages == {"hello", "bye"}

\* starting offsets: message_index is "the index of the first message"
Offsets == {0, 2}

\* starting offsets over the whole of int, the parameter's declared type
AnyOffsets == {-2, -1, 0, 2}

----------------------------------------------------------------------------
(* Python scalars *)

Py(t, r) == [type |-> t, repr |-> r]
None == Py("NoneType", "None")
True == Py("bool", "True")
False == Py("bool", "False")

\* a raised exception: its class and its message
Raise(t, message) == Py(t, message)

\* Python truthiness of a scalar, as `not x` uses it
truthy(x) == x \notin {None, False, Py("int", "0"), Py("str", "")}

----------------------------------------------------------------------------
(* types.py *)

PRE_CONTEMPLATION == "pre_contemplation"
CONTEMPLATION == "contemplation"
PREPARATION == "preparation"
Stage == {PRE_CONTEMPLATION, CONTEMPLATION, PREPARATION}

\* next_stage with a progression that starts over after the last stage
next_stage_wraps(s) ==
    CASE s = "pre_contemplation" -> "contemplation"
      [] s = "contemplation" -> "preparation"
      [] s = "preparation" -> "pre_contemplation"
      [] OTHER -> "None"

\* Stage.next_stage: stage_progression.get(self); "None" is Python's None
NoStage == "None"
next_stage(s) ==
    CASE s = PRE_CONTEMPLATION -> CONTEMPLATION
      [] s = CONTEMPLATION -> PREPARATION
      [] s = PREPARATION -> NoStage
      [] OTHER -> NoStage

is_final_stage(s) == next_stage(s) = NoStage

\* position of a member in the definition order of the Stage enum
ordinal(s) ==
    CASE s = PRE_CONTEMPLATION -> 1
      [] s = CONTEMPLATION -> 2
      [] s = PREPARATION -> 3

OBJECTIVE_COMPLETION == "objective_completion"
TABLE_COMPARISON == "table_comparison"
EvaluationMethods == {OBJECTIVE_COMPLETION, TABLE_COMPARISON}

\* EvaluationConfig.from_objectives / from_table.  TableData(costs, rewards)
\* is kept as one tagged list of strings, so that every data is a list
from_objectives(objectives) == [method |-> OBJECTIVE_COMPLETION, data |-> objectives]
TableData(costs, rewards) == <<"costs">> \o costs \o <<"rewards">> \o rewards
from_table(costs, rewards) == [method |-> TABLE_COMPARISON, data |-> TableData(costs, rewards)]

\* the dataclass does not validate method: any value can be stored
UnsupportedConfig == [method |-> "unsupported", data |-> <<>>]

----------------------------------------------------------------------------
(* json.loads on the reply texts of the model *)

\* the texts a completion can carry, one of each shape the evaluator tells
\* apart ("" is an empty completion and never reaches json.loads)
NotJson == "Sure, the objective is met."
JsonList == "[true]"
JsonNumber == "1"
JsonString == "\"true\""
JsonTrue == "true"
JsonNull == "null"
ObjNoResult == "{\"chain_of_thought\": \"...\"}"
ObjResultTrue == "{\"result\": true}"
ObjResultFalse == "{\"chain_of_thought\": \"...\", \"result\": false}"
ObjResultString == "{\"result\": \"yes\"}"

NonObjectJson == {JsonList, JsonNumber, JsonString, JsonTrue, JsonNull}
ReplyTexts ==
    {NotJson, ObjNoResult, ObjResultTrue, ObjResultFalse, ObjResultString}
        \cup NonObjectJson

\* a parsed value: its Python type and, for a dict, its keys and values
Parsed(t, ks, cot, res) ==
    [exc |-> None, type |-> t, keys |-> ks, chain_of_thought |-> cot, result |-> res]

json_loads(text) ==
    CASE text = JsonList -> Parsed("list", {}, None, None)
      [] text = JsonNumber -> Parsed("int", {}, None, None)
      [] text = JsonString -> Parsed("str", {}, None, None)
      [] text = JsonTrue -> Parsed("bool", {}, None, None)
      [] text = JsonNull -> Parsed("NoneType", {}, None, None)
      [] text = ObjNoResult ->
            Parsed("dict", {"chain_of_thought"}, Py("str", "..."), None)
      [] text = ObjResultTrue -> Parsed("dict", {"result"}, None, True)
      [] text = ObjResultFalse ->
            Parsed("dict", {"chain_of_thought", "result"}, Py("str", "..."), False)
      [] text = ObjResultString -> Parsed("dict", {"result"}, None, Py("str", "yes"))
      [] OTHER -> [Parsed("", {}, None, None) EXCEPT !.exc = Raise("JSONDecodeError", "Expecting value")]

\* dict.get(key): the value, or None when the key is absent
dict_get(d, key) == IF key \in d.keys THEN d[key] ELSE None

----------------------------------------------------------------------------
(* lib/base/ai.py: Client *)

Msg(role, content) == [role |-> role, content |-> content]

\* what chat.completions.create does with a request: it raises, or returns a
\* completion whose content is a text ("" for no choices or empty content)
APIError == [raises |-> TRUE, content |-> ""]
Completion(text) == [raises |-> FALSE, content |-> text]
Completions == {APIError, Completion("")} \cup {Completion(t) : t \in ReplyTexts}

\* what the request for the character's response can bring: free text
MessageCompletions == {APIError, Completion(""), Completion(NotJson)}

\* the prompt file of each evaluation method, read at construction
original_system_prompt(method) == <<"prompt", method>>

\* Client.__init__ without history
Client_init(system_prompt) == <<Msg("system", system_prompt)>>

\* Client.send_message: outcome [chat_prompt, sent, ret, exc]; sent is the
\* transcript passed to chat.completions.create
send_message(cp, message, completion) ==
    LET cp1 == Append(cp, Msg("user", message)) IN
    IF completion.raises
    THEN [chat_prompt |-> cp1, sent |-> cp1, ret |-> "", exc |-> Raise("APIError", "request failed")]
    ELSE IF completion.content = ""
    THEN [chat_prompt |-> cp1, sent |-> cp1, ret |-> "",
          exc |-> Raise("ValueError", "No completion choices returned")]
    ELSE [chat_prompt |-> Append(cp1, Msg("assistant", <<completion.content>>)),
          sent |-> cp1, ret |-> completion.content, exc |-> None]

\* reset_conversation starting over from an empty system instruction
reset_conversation_blank(method) == <<Msg("system", <<>>)>>

\* Client.reset_conversation
reset_conversation(method) == <<Msg("system", original_system_prompt(method))>>

----------------------------------------------------------------------------
(* lib/stage_manager/evaluators/evaluator.py: Evaluator *)

NoMethod == "none"

\* Evaluator._get_eval_result: outcome [ret, exc]
_get_eval_result(response) ==
    LET parsed == json_loads(response) IN
    IF parsed.exc # None
    THEN [ret |-> None, exc |-> None]                       \* except JSONDecodeError
    ELSE IF parsed.type # "dict"
    THEN [ret |-> None, exc |-> Raise("AttributeError", "no attribute get")]  \* response.get
    ELSE IF ~truthy(dict_get(parsed, "result"))
    THEN [ret |-> None, exc |-> None]
    ELSE [ret |-> dict_get(parsed, "result"), exc |-> None]

\* the f-string of evaluate_objective_completion, as the list of its parts
eval_prompt(objective, history) ==
    <<"Objective:">> \o objective \o <<"History:">> \o history

\* outcome of an evaluation: the clients' transcripts afterwards, the value
\* returned or the exception raised, the method invoked with its history
\* argument, and the transcript of the completion request it issued
Evaluation(clients, r, e, m, h, s, n, ev) ==
    [ai_clients |-> clients, ret |-> r, exc |-> e, evaluator |-> m,
     history |-> h, sent |-> s, requests |-> n, events |-> ev]

\* evaluate_objective_completion catching a failed request and reporting it
\* as an invalid response
evaluate_objective_completion_swallows(ai_clients, objective, history, completion) ==
    LET m == OBJECTIVE_COMPLETION
        sm == send_message(ai_clients[m], eval_prompt(objective, history), completion)
        sent == [ai_clients EXCEPT ![m] = sm.chat_prompt]
        er == _get_eval_result(sm.ret)
    IN  IF sm.exc # None
        THEN Evaluation([ai_clients EXCEPT ![m] = reset_conversation(m)],
                        None, None, m, history, sm.sent, 1,
                        <<"evaluator", "request", "reset">>)
        ELSE IF er.exc # None
        THEN Evaluation(sent, None, er.exc, m, history, sm.sent, 1,
                        <<"evaluator", "request", "reply", "raise">>)
        ELSE Evaluation([ai_clients EXCEPT ![m] = reset_conversation(m)],
                        er.ret, None, m, history, sm.sent, 1,
                        <<"evaluator", "request", "reply", "reset">>)

\* Evaluator.evaluate_objective_completion (json.dumps of lists of str does
\* not raise)
evaluate_objective_completion(ai_clients, objective, history, completion) ==
    LET m == OBJECTIVE_COMPLETION
        sm == send_message(ai_clients[m], eval_prompt(objective, history), completion)
        sent == [ai_clients EXCEPT ![m] = sm.chat_prompt]
        er == _get_eval_result(sm.ret)
    IN  IF sm.exc # None
        THEN Evaluation(sent, None, sm.exc, m, history, sm.sent, 1,
                        <<"evaluator", "request", "raise">>)
        ELSE IF er.exc # None
        THEN Evaluation(sent, None, er.exc, m, history, sm.sent, 1,
                        <<"evaluator", "request", "reply", "raise">>)
        ELSE Evaluation([ai_clients EXCEPT ![m] = reset_conversation(m)],
                        er.ret, None, m, history, sm.sent, 1,
                        <<"evaluator", "request", "reply", "reset">>)

\* evaluate_table_comparison approving without a comparison
evaluate_table_comparison_approves(ai_clients, table, history) ==
    Evaluation(ai_clients, True, None, TABLE_COMPARISON, history, <<>>, 0,
               <<"evaluator", "reset">>)

\* Evaluator.evaluate_table_comparison
evaluate_table_comparison(ai_clients, table, history) ==
    Evaluation(ai_clients, None, Raise("NotImplementedError", "Table Comparison method not implemented"),
               TABLE_COMPARISON, history, <<>>, 0, <<"evaluator", "raise">>)

----------------------------------------------------------------------------
(* Evaluator.__init__ and the prompt files it reads.  A path is the list of *)
(* its components below evaluators/prompts; the file system maps a path to  *)
(* the node found there.                                                    *)

Absent == [kind |-> "absent", content |-> <<>>]
Directory == [kind |-> "dir", content |-> <<>>]
File(content) == [kind |-> "file", content |-> content]

\* the texts a prompt file can hold: nothing, the instruction of either
\* method, or some other text
PromptTexts ==
    {<<>>, <<"other">>} \cup {original_system_prompt(m) : m \in EvaluationMethods}

\* f"{prompt_name.value}.txt"
prompt_file(prompt_name) == prompt_name \o ".txt"

\* os.path.join of a path with a relative name
os_path_join(path, name) == Append(path, name)

\* os.path.exists
os_path_exists(fs, path) == path \in DOMAIN fs /\ fs[path].kind # "absent"

\* the list prompt_names
prompt_names == <<OBJECTIVE_COMPLETION, TABLE_COMPARISON>>

\* outcome of Evaluator.__init__: the clients created, the exception raised
\* if any, and the last path looked up
Construction(clients, e, path) ==
    [attempted |-> TRUE, ai_clients |-> clients, exc |-> e, prompt_path |-> path]

\* the loop of Evaluator.__init__ from prompt_names[i] on; prompt_path is the
\* loop's own variable, joined anew onto itself in every round
RECURSIVE load_prompts(_, _, _, _)
load_prompts(fs, i, prompt_path, ai_clients) ==
    IF i > Len(prompt_names)
    THEN Construction(ai_clients, None, prompt_path)
    ELSE LET prompt_name == prompt_names[i]
             path == os_path_join(prompt_path, prompt_file(prompt_name))
         IN  IF ~os_path_exists(fs, path)
             THEN Construction(ai_clients, Raise("FileNotFoundError", "Prompt file not found"), path)
             ELSE IF fs[path].kind = "dir"                  \* open(prompt_path, "r")
             THEN Construction(ai_clients, Raise("IsADirectoryError", "Is a directory"), path)
             ELSE load_prompts(fs, i + 1, path,
                               [m \in DOMAIN ai_clients \cup {prompt_name} |->
                                    IF m = prompt_name
                                    THEN Client_init(fs[path].content)
                                    ELSE ai_clients[m]])

\* Evaluator.__init__: prompt_path starts at the prompts directory
Evaluator_init(fs) == load_prompts(fs, 1, <<>>, [m \in {} |-> <<>>])

----------------------------------------------------------------------------
(* lib/stage_manager/stage_manager.py: StageManager *)

\* the sentinel end of a record that has not been closed
Open == -1

Record(start, end, messages) == [start |-> start, end |-> end, messages |-> messages]

\* StageManager.__init__ opening a record for every stage at once
StageManager_init_every_stage(config, stage, index) ==
    [stage_config |-> config,
     current_stage |-> stage,
     current_message_index |-> index,
     ai_clients |-> [m \in EvaluationMethods |-> Client_init(original_system_prompt(m))],
     stage_history |-> [s \in Stage |-> Record(index, Open, <<>>)]]

\* StageManager.__init__, given the evaluation clients its Evaluator holds
StageManager_init(config, stage, index) ==
    [stage_config |-> config,
     current_stage |-> stage,
     current_message_index |-> index,
     ai_clients |-> [m \in EvaluationMethods |-> Client_init(original_system_prompt(m))],
     stage_history |-> [s \in {stage} |-> Record(index, Open, <<>>)]]

\* outcome of a StageManager operation
Outcome(self, r, e, res, ev, evl) ==
    [self |-> self, ret |-> r, exc |-> e, result |-> res, events |-> ev,
     evaluator |-> evl.evaluator, history |-> evl.history,
     sent |-> evl.sent, requests |-> evl.requests]

NoEvaluation == Evaluation(<<>>, None, None, NoMethod, <<>>, <<>>, 0, <<>>)

\* the ValueError of advance_stage
NotConfigured == Raise("ValueError", "Next stage is not configured in stage_config")

\* advance_stage without the update of the current stage's end index
advance_stage_leaves_open(self) ==
    LET next == next_stage(self.current_stage) IN
    IF is_final_stage(self.current_stage)
    THEN Outcome(self, False, None, None, <<"final">>, NoEvaluation)
    ELSE IF next \notin DOMAIN self.stage_config
    THEN Outcome(self, None, NotConfigured, None, <<"raise">>, NoEvaluation)
    ELSE Outcome(
            [self EXCEPT
                !.stage_history =
                    [s \in DOMAIN self.stage_history \cup {next} |->
                        IF s = next
                        THEN Record(self.current_message_index, Open, <<>>)
                        ELSE self.stage_history[s]],
                !.current_stage = next],
            True, None, None, <<"advance">>, NoEvaluation)

\* advance_stage closing the record at the index of its last message
advance_stage_inclusive_end(self) ==
    LET next == next_stage(self.current_stage) IN
    IF is_final_stage(self.current_stage)
    THEN Outcome(self, False, None, None, <<"final">>, NoEvaluation)
    ELSE IF next \notin DOMAIN self.stage_config
    THEN Outcome(self, None, NotConfigured, None, <<"raise">>, NoEvaluation)
    ELSE Outcome(
            [self EXCEPT
                !.stage_history =
                    [s \in DOMAIN self.stage_history \cup {next} |->
                        IF s = next
                        THEN Record(self.current_message_index, Open, <<>>)
                        ELSE IF s = self.current_stage
                        THEN [self.stage_history[s] EXCEPT
                                !.end = self.current_message_index - 1]
                        ELSE self.stage_history[s]],
                !.current_stage = next],
            True, None, None, <<"advance">>, NoEvaluation)

\* advance_stage counting the transition as a message
advance_stage_increments(self) ==
    LET next == next_stage(self.current_stage) IN
    IF is_final_stage(self.current_stage)
    THEN Outcome(self, False, None, None, <<"final">>, NoEvaluation)
    ELSE IF next \notin DOMAIN self.stage_config
    THEN Outcome(self, None, NotConfigured, None, <<"raise">>, NoEvaluation)
    ELSE Outcome(
            [self EXCEPT
                !.stage_history =
                    [s \in DOMAIN self.stage_history \cup {next} |->
                        IF s = next
                        THEN Record(self.current_message_index + 1, Open, <<>>)
                        ELSE IF s = self.current_stage
                        THEN [self.stage_history[s] EXCEPT
                                !.end = self.current_message_index + 1]
                        ELSE self.stage_history[s]],
                !.current_message_index = @ + 1,
                !.current_stage = next],
            True, None, None, <<"advance">>, NoEvaluation)

\* advance_stage without the test for the final stage: None is looked up in
\* stage_config
advance_stage_no_final_check(self) ==
    LET next == next_stage(self.current_stage) IN
    IF next \notin DOMAIN self.stage_config
    THEN Outcome(self, None, NotConfigured, None, <<"raise">>, NoEvaluation)
    ELSE Outcome(
            [self EXCEPT
                !.stage_history =
                    [s \in DOMAIN self.stage_history \cup {next} |->
                        IF s = next
                        THEN Record(self.current_message_index, Open, <<>>)
                        ELSE IF s = self.current_stage
                        THEN [self.stage_history[s] EXCEPT
                                !.end = self.current_message_index]
                        ELSE self.stage_history[s]],
                !.current_stage = next],
            True, None, None, <<"advance">>, NoEvaluation)

\* advance_stage closing the current record before it verifies the successor
advance_stage_closes_first(self) ==
    LET next == next_stage(self.current_stage)
        closed == [self EXCEPT !.stage_history[self.current_stage].end =
                                    self.current_message_index]
    IN  IF is_final_stage(self.current_stage)
        THEN Outcome(self, False, None, None, <<"final">>, NoEvaluation)
        ELSE IF next \notin DOMAIN self.stage_config
        THEN Outcome(closed, None, NotConfigured, None, <<"raise">>, NoEvaluation)
        ELSE Outcome(
                [self EXCEPT
                    !.stage_history =
                        [s \in DOMAIN self.stage_history \cup {next} |->
                            IF s = next
                            THEN Record(self.current_message_index, Open, <<>>)
                            ELSE IF s = self.current_stage
                            THEN [self.stage_history[s] EXCEPT
                                    !.end = self.current_message_index]
                            ELSE self.stage_history[s]],
                    !.current_stage = next],
                True, None, None, <<"advance">>, NoEvaluation)

\* advance_stage opening the successor's record with the messages so far
advance_stage_carries_messages(self) ==
    LET next == next_stage(self.current_stage) IN
    IF is_final_stage(self.current_stage)
    THEN Outcome(self, False, None, None, <<"final">>, NoEvaluation)
    ELSE IF next \notin DOMAIN self.stage_config
    THEN Outcome(self, None, NotConfigured, None, <<"raise">>, NoEvaluation)
    ELSE Outcome(
            [self EXCEPT
                !.stage_history =
                    [s \in DOMAIN self.stage_history \cup {next} |->
                        IF s = next
                        THEN Record(self.current_message_index, Open,
                                    self.stage_history[self.current_stage].messages)
                        ELSE IF s = self.current_stage
                        THEN [self.stage_history[s] EXCEPT
                                !.end = self.current_message_index]
                        ELSE self.stage_history[s]],
                !.current_stage = next],
            True, None, None, <<"advance">>, NoEvaluation)

\* StageManager.advance_stage: ret is the bool returned
advance_stage(self) ==
    LET next == next_stage(self.current_stage) IN
    IF is_final_stage(self.current_stage)
    THEN Outcome(self, False, None, None, <<"final">>, NoEvaluation)
    ELSE IF next \notin DOMAIN self.stage_config
    THEN Outcome(self, None, NotConfigured, None, <<"raise">>, NoEvaluation)
    ELSE Outcome(
            [self EXCEPT
                !.stage_history =
                    [s \in DOMAIN self.stage_history \cup {next} |->
                        IF s = next
                        THEN Record(self.current_message_index, Open, <<>>)
                        ELSE IF s = self.current_stage
                        THEN [self.stage_history[s] EXCEPT
                                !.end = self.current_message_index]
                        ELSE self.stage_history[s]],
                !.current_stage = next],
            True, None, None, <<"advance">>, NoEvaluation)

\* evaluate_stage without the final else: an unknown method yields None
evaluate_stage_falls_through(self, completion) ==
    LET messages == self.stage_history[self.current_stage].messages
        config == self.stage_config[self.current_stage]
        ev == IF config.method = OBJECTIVE_COMPLETION
              THEN evaluate_objective_completion(self.ai_clients, config.data,
                                                 messages, completion)
              ELSE evaluate_table_comparison(self.ai_clients, config.data, messages)
    IN  IF self.current_stage \notin DOMAIN self.stage_config
        THEN Outcome(self, None, Raise("KeyError", "current_stage"), None, <<"raise">>, NoEvaluation)
        ELSE IF config.method \in {OBJECTIVE_COMPLETION, TABLE_COMPARISON}
        THEN Outcome([self EXCEPT !.ai_clients = ev.ai_clients],
                     ev.ret, ev.exc, ev.ret, ev.events, ev)
        ELSE Outcome(self, None, None, None, <<>>, NoEvaluation)

\* evaluate_stage reporting a missing policy entry as the configuration error
evaluate_stage_validates(self, completion) ==
    LET messages == self.stage_history[self.current_stage].messages
        config == self.stage_config[self.current_stage]
        ev == IF config.method = OBJECTIVE_COMPLETION
              THEN evaluate_objective_completion(self.ai_clients, config.data,
                                                 messages, completion)
              ELSE evaluate_table_comparison(self.ai_clients, config.data, messages)
    IN  IF self.current_stage \notin DOMAIN self.stage_config
        THEN Outcome(self, None, NotConfigured, None, <<"raise">>, NoEvaluation)
        ELSE IF config.method \in {OBJECTIVE_COMPLETION, TABLE_COMPARISON}
        THEN Outcome([self EXCEPT !.ai_clients = ev.ai_clients],
                     ev.ret, ev.exc, ev.ret, ev.events, ev)
        ELSE Outcome(self, None,
                     Raise("ValueError", "Invalid/unsupported evaluation method"),
                     None, <<"raise">>, NoEvaluation)

\* StageManager.evaluate_stage: ret is the judgment returned
evaluate_stage(self, completion) ==
    LET messages == self.stage_history[self.current_stage].messages
        config == self.stage_config[self.current_stage]
        ev == IF config.method = OBJECTIVE_COMPLETION
              THEN evaluate_objective_completion(self.ai_clients, config.data,
                                                 messages, completion)
              ELSE evaluate_table_comparison(self.ai_clients, config.data, messages)
    IN  IF self.current_stage \notin DOMAIN self.stage_config
        THEN Outcome(self, None, Raise("KeyError", "current_stage"), None, <<"raise">>, NoEvaluation)
        ELSE IF config.method \in {OBJECTIVE_COMPLETION, TABLE_COMPARISON}
        THEN Outcome([self EXCEPT !.ai_clients = ev.ai_clients],
                     ev.ret, ev.exc, ev.ret, ev.events, ev)
        ELSE Outcome(self, None,
                     Raise("ValueError", "Invalid/unsupported evaluation method"),
                     None, <<"raise">>, NoEvaluation)

\* handle_message_add advancing on any truthy result (`elif result:`)
handle_message_add_truthy(self, message, completion) ==
    LET recorded ==
            [self EXCEPT
                !.stage_history[self.current_stage].messages = Append(@, message),
                !.current_message_index = @ + 1]
        ev == evaluate_stage(recorded, completion)
        adv == advance_stage(ev.self)
        pre == <<"append", "increment">> \o ev.events
    IN  IF ev.exc # None
        THEN [ev EXCEPT !.events = pre]
        ELSE IF ev.ret = None
        THEN [ev EXCEPT !.ret = None, !.events = pre \o <<"log_error">>]
        ELSE IF truthy(ev.ret)
        THEN [ev EXCEPT !.self = adv.self, !.ret = None, !.exc = adv.exc,
                        !.events = pre \o <<"log_info">> \o adv.events]
        ELSE [ev EXCEPT !.ret = None, !.events = pre]

\* handle_message_add advancing unless the result is False (`if` for `elif`,
\* `is not False` for `is True`)
handle_message_add_not_false(self, message, completion) ==
    LET recorded ==
            [self EXCEPT
                !.stage_history[self.current_stage].messages = Append(@, message),
                !.current_message_index = @ + 1]
        ev == evaluate_stage(recorded, completion)
        adv == advance_stage(ev.self)
        pre == <<"append", "increment">> \o ev.events
    IN  IF ev.exc # None
        THEN [ev EXCEPT !.events = pre]
        ELSE IF ev.ret # False
        THEN [ev EXCEPT !.self = adv.self, !.ret = None, !.exc = adv.exc,
                        !.events = pre \o <<"log_info">> \o adv.events]
        ELSE [ev EXCEPT !.ret = None, !.events = pre]

\* handle_message_add looking for the successor's policy entry before it
\* evaluates
handle_message_add_checks_first(self, message, completion) ==
    LET recorded ==
            [self EXCEPT
                !.stage_history[self.current_stage].messages = Append(@, message),
                !.current_message_index = @ + 1]
        ev == evaluate_stage(recorded, completion)
        adv == advance_stage(ev.self)
        pre == <<"append", "increment">> \o ev.events
    IN  IF /\ ~is_final_stage(self.current_stage)
           /\ next_stage(self.current_stage) \notin DOMAIN self.stage_config
        THEN Outcome(recorded, None, NotConfigured, None,
                     <<"append", "increment", "raise">>, NoEvaluation)
        ELSE IF ev.exc # None
        THEN [ev EXCEPT !.events = pre]
        ELSE IF ev.ret = None
        THEN [ev EXCEPT !.ret = None, !.events = pre \o <<"log_error">>]
        ELSE IF ev.ret = True
        THEN [ev EXCEPT !.self = adv.self, !.ret = None, !.exc = adv.exc,
                        !.events = pre \o <<"log_info">> \o adv.events]
        ELSE [ev EXCEPT !.ret = None, !.events = pre]

\* handle_message_add evaluating the stage before it records the message
handle_message_add_evaluates_first(self, message, completion) ==
    LET ev == evaluate_stage(self, completion)
        recorded ==
            [ev.self EXCEPT
                !.stage_history[self.current_stage].messages = Append(@, message),
                !.current_message_index = @ + 1]
        adv == advance_stage(recorded)
        post == ev.events \o <<"append", "increment">>
    IN  IF ev.exc # None
        THEN [ev EXCEPT !.events = ev.events]
        ELSE IF ev.ret = None
        THEN [ev EXCEPT !.self = recorded, !.ret = None,
                        !.events = post \o <<"log_error">>]
        ELSE IF ev.ret = True
        THEN [ev EXCEPT !.self = adv.self, !.ret = None, !.exc = adv.exc,
                        !.events = post \o <<"log_info">> \o adv.events]
        ELSE [ev EXCEPT !.self = recorded, !.ret = None, !.events = post]

\* handle_message_add returning what advance_stage returned
handle_message_add_returns_advance(self, message, completion) ==
    LET recorded ==
            [self EXCEPT
                !.stage_history[self.current_stage].messages = Append(@, message),
                !.current_message_index = @ + 1]
        ev == evaluate_stage(recorded, completion)
        adv == advance_stage(ev.self)
        pre == <<"append", "increment">> \o ev.events
    IN  IF ev.exc # None
        THEN [ev EXCEPT !.events = pre]
        ELSE IF ev.ret = None
        THEN [ev EXCEPT !.ret = None, !.events = pre \o <<"log_error">>]
        ELSE IF ev.ret = True
        THEN [ev EXCEPT !.self = adv.self, !.ret = adv.ret, !.exc = adv.exc,
                        !.events = pre \o <<"log_info">> \o adv.events]
        ELSE [ev EXCEPT !.ret = False, !.events = pre]

\* handle_message_add dropping the message of a call judged None
handle_message_add_forgets_unknown(self, message, completion) ==
    LET recorded ==
            [self EXCEPT
                !.stage_history[self.current_stage].messages = Append(@, message),
                !.current_message_index = @ + 1]
        ev == evaluate_stage(recorded, completion)
        adv == advance_stage(ev.self)
        pre == <<"append", "increment">> \o ev.events
    IN  IF ev.exc # None
        THEN [ev EXCEPT !.events = pre]
        ELSE IF ev.ret = None
        THEN [ev EXCEPT !.self.stage_history = self.stage_history,
                        !.ret = None, !.events = pre \o <<"log_error">>]
        ELSE IF ev.ret = True
        THEN [ev EXCEPT !.self = adv.self, !.ret = None, !.exc = adv.exc,
                        !.events = pre \o <<"log_info">> \o adv.events]
        ELSE [ev EXCEPT !.ret = None, !.events = pre]

\* handle_message_add taking the index back when the evaluation raises
handle_message_add_restores_index(self, message, completion) ==
    LET recorded ==
            [self EXCEPT
                !.stage_history[self.current_stage].messages = Append(@, message),
                !.current_message_index = @ + 1]
        ev == evaluate_stage(recorded, completion)
        adv == advance_stage(ev.self)
        pre == <<"append", "increment">> \o ev.events
    IN  IF ev.exc # None
        THEN [ev EXCEPT !.self.current_message_index = self.current_message_index,
                        !.events = pre]
        ELSE IF ev.ret = None
        THEN [ev EXCEPT !.ret = None, !.events = pre \o <<"log_error">>]
        ELSE IF ev.ret = True
        THEN [ev EXCEPT !.self = adv.self, !.ret = None, !.exc = adv.exc,
                        !.events = pre \o <<"log_info">> \o adv.events]
        ELSE [ev EXCEPT !.ret = None, !.events = pre]

\* handle_message_add undoing the append and the increment when it raises
handle_message_add_rolls_back(self, message, completion) ==
    LET recorded ==
            [self EXCEPT
                !.stage_history[self.current_stage].messages = Append(@, message),
                !.current_message_index = @ + 1]
        ev == evaluate_stage(recorded, completion)
        adv == advance_stage(ev.self)
        pre == <<"append", "increment">> \o ev.events
    IN  IF ev.exc # None
        THEN [ev EXCEPT !.self.stage_history = self.stage_history,
                        !.self.current_message_index = self.current_message_index,
                        !.events = pre]
        ELSE IF ev.ret = None
        THEN [ev EXCEPT !.ret = None, !.events = pre \o <<"log_error">>]
        ELSE IF ev.ret = True
        THEN [ev EXCEPT !.self = IF adv.exc # None THEN self ELSE adv.self,
                        !.ret = None, !.exc = adv.exc,
                        !.events = pre \o <<"log_info">> \o adv.events]
        ELSE [ev EXCEPT !.ret = None, !.events = pre]

\* handle_message_add not evaluating any more once the stage is final
handle_message_add_rests_at_final(self, message, completion) ==
    LET recorded ==
            [self EXCEPT
                !.stage_history[self.current_stage].messages = Append(@, message),
                !.current_message_index = @ + 1]
        ev == evaluate_stage(recorded, completion)
        adv == advance_stage(ev.self)
        pre == <<"append", "increment">> \o ev.events
    IN  IF is_final_stage(self.current_stage)
        THEN Outcome(recorded, None, None, None, <<"append", "increment">>, NoEvaluation)
        ELSE IF ev.exc # None
        THEN [ev EXCEPT !.events = pre]
        ELSE IF ev.ret = None
        THEN [ev EXCEPT !.ret = None, !.events = pre \o <<"log_error">>]
        ELSE IF ev.ret = True
        THEN [ev EXCEPT !.self = adv.self, !.ret = None, !.exc = adv.exc,
                        !.events = pre \o <<"log_info">> \o adv.events]
        ELSE [ev EXCEPT !.ret = None, !.events = pre]

\* StageManager.handle_message_add: returns None
handle_message_add(self, message, completion) ==
    LET recorded ==
            [self EXCEPT
                !.stage_history[self.current_stage].messages = Append(@, message),
                !.current_message_index = @ + 1]
        ev == evaluate_stage(recorded, completion)
        adv == advance_stage(ev.self)
        pre == <<"append", "increment">> \o ev.events
    IN  IF ev.exc # None
        THEN [ev EXCEPT !.events = pre]
        ELSE IF ev.ret = None
        THEN [ev EXCEPT !.ret = None, !.events = pre \o <<"log_error">>]
        ELSE IF ev.ret = True
        THEN [ev EXCEPT !.self = adv.self, !.ret = None, !.exc = adv.exc,
                        !.events = pre \o <<"log_info">> \o adv.events]
        ELSE [ev EXCEPT !.ret = None, !.events = pre]

----------------------------------------------------------------------------
(* cognillm.py: CogniLLM.  self is the record of the two clients'           *)
(* transcripts and current_cognitive_model.  A JSON value is the record of  *)
(* its Python type and, for a dict, its keys; json.dumps followed by         *)
(* json.loads returns a value of the same type and keys.                    *)

Value(t, ks) == [type |-> t, keys |-> ks]
NoneValue == Value("NoneType", {})
EmptyDict == Value("dict", {})

\* bool(x) of a JSON value of the model: the list, number, string and
\* boolean the replies carry are all non-empty and non-zero
value_truthy(v) ==
    CASE v.type = "NoneType" -> FALSE
      [] v.type = "dict" -> v.keys # {}
      [] OTHER -> TRUE

\* dict.update(other) called on the value d: outcome [ret, exc]
dict_update(d, other) ==
    IF d.type # "dict"
    THEN [ret |-> d, exc |-> Raise("AttributeError", "no attribute update")]
    ELSE IF other.type = "dict"
    THEN [ret |-> Value("dict", d.keys \cup other.keys), exc |-> None]
    ELSE IF other.type = "str"
    THEN [ret |-> d, exc |-> Raise("ValueError", "dictionary update sequence element has length 1")]
    ELSE [ret |-> d, exc |-> Raise("TypeError", "object is not iterable")]

\* the keys _clean_last_client_message pops from the cognitive state
CleanedKeys ==
    {"persona", "core_beliefs", "intermediate_beliefs", "coping_strategies", "situation"}

BRAIN == "brain_client"
MESSAGE_GENERATOR == "message_generator_client"

\* outcome of a CogniLLM operation: the object afterwards, the cognitive
\* state returned, the exception raised and the clients that were sent a
\* completion request, in the order of the requests
Turn(self, thoughts, e, reqs) ==
    [self |-> self, thoughts |-> thoughts, exc |-> e, requests |-> reqs]

\* _generate_thoughts without the except clause: JSONDecodeError propagates
_generate_thoughts_reraises(self, user_message, completion) ==
    LET history == self.message_generator_client
        last_client_message == history[Len(history)]
        messagegen_input ==
            [user_message |-> user_message,
             last_client_message |->
                IF last_client_message.role = "assistant"
                THEN last_client_message.content ELSE <<>>]
        sm == send_message(self.brain_client, messagegen_input, completion)
        sent == [self EXCEPT !.brain_client = sm.chat_prompt]
        thoughts_data == json_loads(sm.ret)
        data == Value(thoughts_data.type, thoughts_data.keys)
        upd == dict_update(self.current_cognitive_model, data)
    IN  IF sm.exc # None
        THEN Turn(sent, NoneValue, sm.exc, <<BRAIN>>)
        ELSE IF thoughts_data.exc # None
        THEN Turn(sent, NoneValue, thoughts_data.exc, <<BRAIN>>)
        ELSE IF value_truthy(self.current_cognitive_model)
        THEN IF upd.exc # None
             THEN Turn(sent, NoneValue, upd.exc, <<BRAIN>>)
             ELSE Turn([sent EXCEPT !.current_cognitive_model = upd.ret],
                       upd.ret, None, <<BRAIN>>)
        ELSE Turn([sent EXCEPT !.current_cognitive_model = data], data, None, <<BRAIN>>)

\* CogniLLM._generate_thoughts
_generate_thoughts(self, user_message, completion) ==
    LET history == self.message_generator_client
        last_client_message == history[Len(history)]          \* get_history_index(-1)
        messagegen_input ==
            [user_message |-> user_message,
             last_client_message |->
                IF last_client_message.role = "assistant"
                THEN last_client_message.content ELSE <<>>]
        sm == send_message(self.brain_client, messagegen_input, completion)
        sent == [self EXCEPT !.brain_client = sm.chat_prompt]
        thoughts_data == json_loads(sm.ret)
        data == Value(thoughts_data.type, thoughts_data.keys)
        upd == dict_update(self.current_cognitive_model, data)
    IN  IF sm.exc # None
        THEN Turn(sent, NoneValue, sm.exc, <<BRAIN>>)
        ELSE IF thoughts_data.exc # None                       \* except JSONDecodeError
        THEN Turn(sent, NoneValue, None, <<BRAIN>>)
        ELSE IF value_truthy(self.current_cognitive_model)
        THEN IF upd.exc # None
             THEN Turn(sent, NoneValue, upd.exc, <<BRAIN>>)
             ELSE Turn([sent EXCEPT !.current_cognitive_model = upd.ret],
                       upd.ret, None, <<BRAIN>>)
        ELSE Turn([sent EXCEPT !.current_cognitive_model = data], data, None, <<BRAIN>>)

\* CogniLLM._clean_last_client_message on the message generator's
\* transcript: outcome [chat_prompt, exc]
_clean_last_client_message(chat) ==
    LET i == Len(chat) - 1                                     \* get_history_index(-2)
        last_user_message == chat[i]
        state == last_user_message.content.current_cognitive_state
    IN  IF last_user_message.role # "user"
        THEN [chat_prompt |-> chat, exc |-> None]
        ELSE IF ~value_truthy(state)
        THEN [chat_prompt |-> chat, exc |-> None]
        ELSE IF state.type = "dict"
        THEN [chat_prompt |->
                [chat EXCEPT ![i].content.current_cognitive_state =
                                Value("dict", state.keys \ CleanedKeys)],
              exc |-> None]
        ELSE IF state.type = "list"
        THEN [chat_prompt |-> chat, exc |-> Raise("TypeError", "pop expected at most 1 argument")]
        ELSE [chat_prompt |-> chat, exc |-> Raise("AttributeError", "no attribute pop")]

\* CogniLLM.send_message
CogniLLM_send_message(self, user_message, brain_completion, message_completion) ==
    LET g == _generate_thoughts(self, user_message, brain_completion)
        context_data == [user_message |-> user_message,
                         current_cognitive_state |-> g.thoughts]
        sm == send_message(g.self.message_generator_client, context_data,
                           message_completion)
        both == g.requests \o <<MESSAGE_GENERATOR>>
        cleaned == _clean_last_client_message(sm.chat_prompt)
    IN  IF g.exc # None
        THEN g
        ELSE IF sm.exc # None
        THEN Turn([g.self EXCEPT !.message_generator_client = sm.chat_prompt],
                  g.thoughts, sm.exc, both)
        ELSE Turn([g.self EXCEPT !.message_generator_client = cleaned.chat_prompt],
                  g.thoughts, cleaned.exc, both)

\* CogniLLM.reset_conversation
CogniLLM_reset_conversation(self) ==
    [self EXCEPT !.brain_client = Client_init(<<"prompt", "brain_cot.txt">>),
                 !.message_generator_client = Client_init(<<"prompt", "textgen.txt">>)]

\* CogniLLM.__init__ without histories, given the two system prompts and
\* the parsed cognitive model
CogniLLM_init(cognitive_model) ==
    [brain_client |-> Client_init(<<"prompt", "brain_cot.txt">>),
     message_generator_client |-> Client_init(<<"prompt", "textgen.txt">>),
     current_cognitive_model |-> cognitive_model]

----------------------------------------------------------------------------
(* The state machine: a caller constructs one StageManager and calls its   *)
(* methods one after the other                                             *)

\* the stage configurations a caller passes
Objectives(stages) == [s \in stages |-> from_objectives(<<"X">>)]
StageConfigs ==
    {Objectives(Stage),
     Objectives({PRE_CONTEMPLATION, CONTEMPLATION}),
     Objectives({PRE_CONTEMPLATION}),
     Objectives({CONTEMPLATION, PREPARATION}),
     Objectives({}),
     [Objectives(Stage) EXCEPT
        ![CONTEMPLATION] = from_table(<<"cost">>, <<"reward">>)],
     [Objectives(Stage) EXCEPT ![PRE_CONTEMPLATION] = UnsupportedConfig]}

\* the StageManager object, from the variables that hold its fields
Self ==
    [stage_config |-> stage_config,
     current_stage |-> current_stage,
     current_message_index |-> current_message_index,
     ai_clients |-> chat_prompt,
     stage_history |-> stage_history]

NoMessage == ""
NoCompletion == [raises |-> FALSE, content |-> "(no request)"]

Call(op, message, completion, pre, out) ==
    [op |-> op, message |-> message, completion |-> completion, pre |-> pre,
     ret |-> out.ret, exc |-> out.exc, result |-> out.result,
     events |-> out.events, evaluator |-> out.evaluator,
     history |-> out.history, sent |-> out.sent, requests |-> out.requests]

\* the fields of the object after an operation, and the record of the call
Becomes(op, message, completion, out) ==
    /\ stage_config' = out.self.stage_config
    /\ current_stage' = out.self.current_stage
    /\ current_message_index' = out.self.current_message_index
    /\ chat_prompt' = out.self.ai_clients
    /\ stage_history' = out.self.stage_history
    /\ last' = Call(op, message,
                     IF out.requests = 0 THEN NoCompletion ELSE completion,
                     Self, out)
    /\ ops' = ops + 1
    /\ message_log' = IF op = "handle_message_add"
                   THEN Append(message_log,
                               [message |-> message, stage |-> current_stage,
                                judgment |-> IF \E i \in DOMAIN out.events : out.events[i] = "reset"
                                             THEN out.result ELSE out.exc])
                   ELSE message_log
    /\ UNCHANGED <<initial_stage, message_index, prompts, evaluator>>
    /\ UNCHANGED cogni_vars

\* the paths Evaluator.__init__ can look up, and the prompt file of the
\* second method where the prompts directory is expected to hold it
PromptPaths ==
    {<<prompt_file(OBJECTIVE_COMPLETION)>>,
     <<prompt_file(TABLE_COMPARISON)>>,
     <<prompt_file(OBJECTIVE_COMPLETION), prompt_file(TABLE_COMPARISON)>>}

Nodes == {Absent, Directory} \cup {File(c) : c \in PromptTexts}

\* the file systems: a path holds something only below a directory
FileSystems ==
    {fs \in [PromptPaths -> Nodes] :
        \A path \in PromptPaths :
            (Len(path) > 1 /\ fs[path] # Absent) => fs[SubSeq(path, 1, Len(path) - 1)] = Directory}

\* one prompt file per evaluation method, each with its method's instruction
PromptsPerMethod ==
    [path \in PromptPaths |->
        IF \E m \in EvaluationMethods : path = <<prompt_file(m)>>
        THEN File(original_system_prompt(
                    CHOOSE m \in EvaluationMethods : path = <<prompt_file(m)>>))
        ELSE Absent]

\* an Evaluator holding one client per method, as the StageManager is given it
GivenEvaluator ==
    Construction([m \in EvaluationMethods |-> Client_init(original_system_prompt(m))],
                 None, <<>>)

NotConstructed == [attempted |-> FALSE, ai_clients |-> [m \in {} |-> <<>>],
                   exc |-> None, prompt_path |-> <<>>]

\* the CogniLLM object, from the variables that hold its fields
CogniSelf ==
    [brain_client |-> brain_client,
     message_generator_client |-> message_generator_client,
     current_cognitive_model |-> current_cognitive_model]

\* the cognitive models a CogniLLM is constructed with: json.loads of the
\* argument gives a dict, or {} is taken when it cannot be parsed
CognitiveModels == {EmptyDict, Value("dict", {"persona", "mood"})}

\* a CogniLLM right after construction
CogniInit(cognitive_model) ==
    LET self == CogniLLM_init(cognitive_model) IN
    /\ brain_client = self.brain_client
    /\ message_generator_client = self.message_generator_client
    /\ current_cognitive_model = self.current_cognitive_model
    /\ turns = 0
    /\ turn = [op |-> "__init__", pre |-> self, user_message |-> NoMessage,
               thoughts |-> NoneValue, exc |-> None, requests |-> <<>>]

InitWith(offsets) ==
    \E config \in StageConfigs, stage \in Stage, index \in offsets :
        LET self == StageManager_init(config, stage, index) IN
        /\ CogniInit(EmptyDict)
        /\ prompts = PromptsPerMethod
        /\ evaluator = GivenEvaluator
        /\ message_log = <<>>
        /\ stage_config = self.stage_config
        /\ current_stage = self.current_stage
        /\ current_message_index = self.current_message_index
        /\ chat_prompt = self.ai_clients
        /\ stage_history = self.stage_history
        /\ initial_stage = stage
        /\ message_index = index
        /\ calls = 0
        /\ ops = 0
        /\ last = Call("__init__", NoMessage, NoCompletion, self,
                       Outcome(self, None, None, None, <<>>, NoEvaluation))

Init == InitWith(Offsets)
InitAnyOffset == InitWith(AnyOffsets)

HandleMessageAdd ==
    \E message \in Messages, completion \in Completions :
        /\ ops < MaxOps
        /\ calls' = calls + 1
        /\ Becomes("handle_message_add", message, completion,
                   handle_message_add(Self, message, completion))

AdvanceStage ==
    /\ ops < MaxOps
    /\ calls' = calls
    /\ Becomes("advance_stage", NoMessage, NoCompletion, advance_stage(Self))

EvaluateStage ==
    \E completion \in Completions :
        /\ ops < MaxOps
        /\ calls' = calls
        /\ Becomes("evaluate_stage", NoMessage, completion,
                   evaluate_stage(Self, completion))

Next == HandleMessageAdd \/ AdvanceStage \/ EvaluateStage

\* Evaluator.__init__ on its own: any file system, no Evaluator yet, and the
\* StageManager that is about to construct it
InitEvaluator ==
    \E fs \in FileSystems :
        LET self == StageManager_init(Objectives(Stage), PRE_CONTEMPLATION, 0) IN
        /\ prompts = fs
        /\ evaluator = NotConstructed
        /\ message_log = <<>>
        /\ CogniInit(EmptyDict)
        /\ stage_config = self.stage_config
        /\ current_stage = self.current_stage
        /\ current_message_index = self.current_message_index
        /\ chat_prompt = [m \in {} |-> <<>>]
        /\ stage_history = [s \in {} |-> <<>>]
        /\ initial_stage = PRE_CONTEMPLATION
        /\ message_index = 0
        /\ calls = 0
        /\ ops = 0
        /\ last = Call("none", NoMessage, NoCompletion, self,
                       Outcome(self, None, None, None, <<>>, NoEvaluation))

ConstructEvaluator ==
    LET out == Evaluator_init(prompts) IN
    /\ evaluator = NotConstructed
    /\ evaluator' = out
    /\ chat_prompt' = IF out.exc = None THEN out.ai_clients ELSE chat_prompt
    /\ UNCHANGED <<stage_config, current_stage, current_message_index, stage_history,
                   initial_stage, message_index, calls, ops, last, prompts, message_log>>
    /\ UNCHANGED cogni_vars

NextEvaluator == ConstructEvaluator

Spec == Init /\ [][Next]_vars
SpecAnyOffset == InitAnyOffset /\ [][Next]_vars
SpecEvaluator == InitEvaluator /\ [][NextEvaluator]_vars

\* A conversation that goes on: every stage is configured for objective
\* completion and the caller keeps calling handle_message_add.  The replies
\* that are not a positive judgment are counted up to MaxOps; a positive
\* reply can come at any time until the terminal stage is reached, and up
\* to MaxOps calls in all after that.
InitLive ==
    /\ Init
    /\ stage_config = Objectives(Stage)

OtherReplies == {APIError, Completion(NotJson), Completion(ObjResultFalse)}

HandleMessageAddOther ==
    \E message \in Messages, completion \in OtherReplies :
        /\ calls < MaxOps
        /\ calls' = calls + 1
        /\ Becomes("handle_message_add", message, completion,
                   handle_message_add(Self, message, completion))

\* a call with a positive reply can be made: it always changes the state
PositiveEnabled == ~is_final_stage(current_stage) \/ calls < MaxOps

HandleMessageAddPositive ==
    \E message \in Messages :
        /\ PositiveEnabled
        /\ calls' = calls + 1
        /\ Becomes("handle_message_add", message, Completion(ObjResultTrue),
                   handle_message_add(Self, message, Completion(ObjResultTrue)))

NextLive == HandleMessageAddOther \/ HandleMessageAddPositive

\* weak fairness of HandleMessageAddPositive, written out with the guard
\* of the action for ENABLED <<HandleMessageAddPositive>>_vars: the
\* Completion Service keeps returning a positive judgment eventually
FairPositiveReplies ==
    []<>(~PositiveEnabled) \/ []<><<HandleMessageAddPositive>>_vars

SpecLive == InitLive /\ [][NextLive]_vars /\ FairPositiveReplies

\* the CogniLLM on its own: a caller sends user messages turn by turn and
\* may reset the conversation
InitCogniLLM ==
    \E cognitive_model \in CognitiveModels :
        LET self == StageManager_init(Objectives(Stage), PRE_CONTEMPLATION, 0) IN
        /\ CogniInit(cognitive_model)
        /\ stage_config = self.stage_config
        /\ current_stage = self.current_stage
        /\ current_message_index = self.current_message_index
        /\ chat_prompt = self.ai_clients
        /\ stage_history = self.stage_history
        /\ initial_stage = PRE_CONTEMPLATION
        /\ message_index = 0
        /\ calls = 0
        /\ ops = 0
        /\ last = Call("__init__", NoMessage, NoCompletion, self,
                       Outcome(self, None, None, None, <<>>, NoEvaluation))
        /\ prompts = PromptsPerMethod
        /\ evaluator = GivenEvaluator
        /\ message_log = <<>>

CogniBecomes(op, user_message, out) ==
    /\ brain_client' = out.self.brain_client
    /\ message_generator_client' = out.self.message_generator_client
    /\ current_cognitive_model' = out.self.current_cognitive_model
    /\ turn' = [op |-> op, pre |-> CogniSelf, user_message |-> user_message,
                thoughts |-> out.thoughts, exc |-> out.exc, requests |-> out.requests]
    /\ turns' = turns + 1
    /\ UNCHANGED stage_vars

SendMessage ==
    \E user_message \in Messages, brain_completion \in Completions,
       message_completion \in MessageCompletions :
        /\ turns < MaxTurns
        /\ CogniBecomes("send_message", user_message,
                        CogniLLM_send_message(CogniSelf, user_message,
                                              brain_completion, message_completion))

ResetConversation ==
    /\ turns < MaxTurns
    /\ CogniBecomes("reset_conversation", NoMessage,
                    Turn(CogniLLM_reset_conversation(CogniSelf), NoneValue, None, <<>>))

NextCogniLLM == SendMessage \/ ResetConversation

SpecCogniLLM == InitCogniLLM /\ [][NextCogniLLM]_vars

----------------------------------------------------------------------------
(* What the last call was: read from the record of the call *)

Range(seq) == {seq[i] : i \in DOMAIN seq}

\* position of the first occurrence of an event in the last call, 0 if none
At(event) ==
    IF event \in Range(last.events)
    THEN CHOOSE i \in DOMAIN last.events :
            /\ last.events[i] = event
            /\ \A j \in DOMAIN last.events : last.events[j] = event => i <= j
    ELSE 0

IsRecord == last.op = "handle_message_add"

\* the stage the last call started in, and its successor
A == last.pre.current_stage
B == next_stage(A)

\* the evaluator returned a judgment to the last call (it returns only after
\* the reset), and the judgment it returned
Judged == "reset" \in Range(last.events)
Positive == Judged /\ last.result = True
NegativeOrUnknown == Judged /\ last.result \in {False, None}

\* the records whose end is the sentinel
OpenRecords == {s \in DOMAIN stage_history : stage_history[s].end = Open}

----------------------------------------------------------------------------
(* C1 *)

\* C1: when the evaluator returns True to handle_message_add in a
\* non-terminal stage A whose successor B has a policy entry, the call
\* returns with current_stage = B, A's record closed at the index after the
\* increment and holding the message, and B's record {that index, -1, []};
\* from S1 at index 0 with "hello": S1 = {0, 1, ["hello"]}, S2 = {1, -1, []},
\* index 1.
C1_PositiveJudgmentAdvances ==
    (IsRecord /\ Positive /\ ~is_final_stage(A) /\ B \in DOMAIN stage_config) =>
        LET closure == last.pre.current_message_index + 1
            was == last.pre.stage_history[A]
        IN  /\ last.exc = None
            /\ current_stage = B
            /\ current_message_index = closure
            /\ stage_history[A] =
                    Record(was.start, closure, Append(was.messages, last.message))
            /\ stage_history[B] = Record(closure, Open, <<>>)
            /\ (/\ A = PRE_CONTEMPLATION
                /\ was = Record(0, Open, <<>>)
                /\ last.pre.current_message_index = 0
                /\ last.message = "hello")
               => /\ stage_history[PRE_CONTEMPLATION] = Record(0, 1, <<"hello">>)
                  /\ stage_history[CONTEMPLATION] = Record(1, -1, <<>>)
                  /\ current_message_index = 1

\* the scenario of C1 has happened
C1_Witness ==
    /\ IsRecord /\ Positive
    /\ last.completion = Completion(ObjResultTrue)
    /\ last.message = "hello"
    /\ A = PRE_CONTEMPLATION
    /\ last.pre.current_message_index = 0
    /\ current_stage = CONTEMPLATION
    /\ stage_history[CONTEMPLATION].end = Open

----------------------------------------------------------------------------
(* C2 *)

ChangedStage == last.op # "__init__" /\ current_stage # A

\* the evaluator was invoked with A's policy entry and A's message log,
\* which is the log A's record now holds
JudgedA ==
    /\ last.evaluator = stage_config[A].method
    /\ last.history = stage_history[A].messages
    /\ last.sent # <<>>
    /\ last.sent[Len(last.sent)] =
            Msg("user", eval_prompt(stage_config[A].data, last.history))

\* C2: every change of current_stage goes from A to successor(A), which has
\* a policy entry, and happens only in a handle_message_add call whose
\* evaluation of A's policy entry and message log returned True.
C2_EveryChangeIsJudged ==
    ChangedStage =>
        /\ current_stage = B
        /\ B \in DOMAIN stage_config
        /\ IsRecord /\ Positive /\ JudgedA

\* C2 as amended: every change of current_stage goes from A to successor(A),
\* which has a policy entry; a change made by handle_message_add happens
\* only when the evaluator returned True for A's policy entry and message
\* log in that call; a direct call of advance_stage changes the stage
\* without any evaluation.
C2_ChangeIsOneStepForward ==
    ChangedStage =>
        /\ current_stage = B
        /\ B \in DOMAIN stage_config
        /\ last.op \in {"handle_message_add", "advance_stage"}
        /\ IsRecord => (Positive /\ JudgedA)
        /\ last.op = "advance_stage" => (last.requests = 0 /\ last.evaluator = NoMethod)

\* the stage has changed in a handle_message_add call of the second stage
C2_Witness ==
    /\ ChangedStage /\ IsRecord
    /\ A = CONTEMPLATION
    /\ current_stage = PREPARATION

----------------------------------------------------------------------------
(* C3 *)

----------------------------------------------------------------------------
(* C4 *)

\* the end of a record's range: the current index for the open record
RangeEnd(s) ==
    IF stage_history[s].end = Open
    THEN current_message_index
    ELSE stage_history[s].end

\* t's record is the next one after s's in stage order
NextRecord(s, t) ==
    /\ ordinal(s) < ordinal(t)
    /\ ~\E u \in DOMAIN stage_history :
            ordinal(s) < ordinal(u) /\ ordinal(u) < ordinal(t)

----------------------------------------------------------------------------
(* C5 *)

\* C5: for any initial stage and any integer starting offset, exactly one
\* record has end = -1, the one keyed by current_stage (so every record of
\* an exited stage has another end).
C5_OneOpenRecord == OpenRecords = {current_stage}

\* C5 as amended: for any initial stage and any starting offset that is not
\* negative, exactly one record has end = -1, the one keyed by current_stage.
C5_OneOpenRecordFromNaturalOffset ==
    message_index >= 0 => OpenRecords = {current_stage}

\* two stages have been exited after a start at a natural offset
C5_Witness ==
    /\ message_index >= 0
    /\ current_stage = PREPARATION
    /\ Cardinality(DOMAIN stage_history) = 3
    /\ stage_history[PRE_CONTEMPLATION].end # Open
    /\ stage_history[CONTEMPLATION].end # Open

----------------------------------------------------------------------------
(* C6 *)

\* C6: every handle_message_add call increases current_message_index by
\* exactly 1, whatever the call ends in, and no other operation changes it:
\* the index is the starting offset plus the number of calls.
C6_IndexCountsCalls ==
    /\ current_message_index = message_index + calls
    /\ IsRecord => current_message_index = last.pre.current_message_index + 1
    /\ last.op \in {"advance_stage", "evaluate_stage"} =>
            current_message_index = last.pre.current_message_index

\* a call that stayed in the stage and then a call that advanced
C6_Witness ==
    /\ calls = 2
    /\ IsRecord /\ ChangedStage
    /\ Len(stage_history[A].messages) = 2
    /\ current_message_index = message_index + 2

----------------------------------------------------------------------------
(* C7 *)

\* the last handle_message_add call ended in the configuration error: the
\* successor of its non-terminal stage has no policy entry
ConfigurationError ==
    /\ IsRecord
    /\ last.exc = NotConfigured
    /\ ~is_final_stage(A)
    /\ B \notin DOMAIN stage_config

\* C7: when the successor of the current non-terminal stage has no policy
\* entry, the configuration error is raised before any completion request:
\* the call that ends in it has issued none.
C7_ErrorBeforeAnyRequest == ConfigurationError => last.requests = 0

\* C7 as amended: the configuration error is raised only after the
\* evaluation of that call: the call has issued exactly one completion
\* request, whose reply was judged True, before advance_stage raised, and it
\* issues none after that.
C7_ErrorAfterPositiveJudgment ==
    ConfigurationError =>
        /\ last.requests = 1
        /\ Positive
        /\ At("request") < At("reset")
        /\ At("reset") < At("raise")
        /\ At("raise") = Len(last.events)
        /\ Cardinality({i \in DOMAIN last.events : last.events[i] = "request"}) = 1

\* the configuration error has been raised in the first stage
C7_Witness ==
    /\ ConfigurationError
    /\ A = PRE_CONTEMPLATION
    /\ CONTEMPLATION \notin DOMAIN stage_config
    /\ current_stage = PRE_CONTEMPLATION

----------------------------------------------------------------------------
(* C8 *)

\* C8: in every handle_message_add call that invokes the evaluator, the
\* message has been appended and the index incremented before, and the
\* message list handed to the evaluator (and written into the request) is
\* the stage's earlier messages followed by the message just recorded.
C8_RecordedBeforeJudged ==
    (IsRecord /\ last.evaluator # NoMethod) =>
        /\ At("append") > 0 /\ At("append") < At("evaluator")
        /\ At("increment") > 0 /\ At("increment") < At("evaluator")
        /\ last.history = Append(last.pre.stage_history[A].messages, last.message)
        /\ last.history[Len(last.history)] = last.message
        /\ last.requests = 1 =>
                last.sent[Len(last.sent)] =
                    Msg("user", eval_prompt(stage_config[A].data, last.history))

\* the evaluator has judged a list of two messages, the second just recorded
C8_Witness ==
    /\ IsRecord
    /\ last.evaluator = OBJECTIVE_COMPLETION
    /\ last.requests = 1
    /\ Len(last.history) = 2
    /\ last.history[1] # last.message
    /\ last.history[2] = last.message

----------------------------------------------------------------------------
(* C9 *)

\* the replies that are not an object with a result field
MalformedReplies ==
    {Completion(t) : t \in {NotJson, ObjNoResult} \cup NonObjectJson}

\* C9: for every reply that is not JSON, is JSON but not an object, or is an
\* object without a result field, the evaluator returns None and raises
\* nothing, so handle_message_add returns normally.
C9_MalformedReplyIsUnknown ==
    (IsRecord /\ last.requests = 1 /\ last.completion \in MalformedReplies) =>
        /\ last.exc = None
        /\ Judged
        /\ last.result = None

----------------------------------------------------------------------------
(* C10 *)

\* C10: at the start of every evaluation call, whatever the earlier
\* evaluation calls ended in, the evaluation client's transcript holds only
\* the system instruction, so the request sent holds the system instruction
\* and this call's prompt and nothing of an earlier evaluation.
C10_EvaluationStartsFresh ==
    last.evaluator = OBJECTIVE_COMPLETION =>
        /\ last.pre.ai_clients[OBJECTIVE_COMPLETION] =
                <<Msg("system", original_system_prompt(OBJECTIVE_COMPLETION))>>
        /\ Len(last.sent) = 2

----------------------------------------------------------------------------
(* C11 *)

\* the stage the last call started in is configured for table comparison
TableStage ==
    /\ A \in DOMAIN stage_config
    /\ stage_config[A].method = TABLE_COMPARISON

\* C11: an evaluation with the table comparison method always ends in
\* NotImplementedError: it returns no judgment and issues no completion
\* request, and a handle_message_add call in a stage that uses it leaves
\* current_stage and the records' start and end as they were.
C11_TableComparisonNotImplemented ==
    /\ last.evaluator = TABLE_COMPARISON =>
            /\ last.exc = Raise("NotImplementedError",
                                "Table Comparison method not implemented")
            /\ ~Judged
            /\ last.requests = 0
            /\ last.sent = <<>>
            /\ chat_prompt = last.pre.ai_clients
    /\ (last.op \in {"handle_message_add", "evaluate_stage"} /\ TableStage) =>
            /\ last.evaluator = TABLE_COMPARISON
            /\ current_stage = A
            /\ DOMAIN stage_history = DOMAIN last.pre.stage_history
            /\ \A s \in DOMAIN stage_history :
                    /\ stage_history[s].start = last.pre.stage_history[s].start
                    /\ stage_history[s].end = last.pre.stage_history[s].end

\* a message has been recorded in a table comparison stage that was entered
\* by a transition
C11_Witness ==
    /\ IsRecord /\ TableStage
    /\ A = CONTEMPLATION
    /\ initial_stage = PRE_CONTEMPLATION
    /\ last.history = <<last.message>>

----------------------------------------------------------------------------
(* C12 *)

\* C12: advance_stage called in the terminal stage returns False, raises
\* nothing and leaves current_stage, current_message_index and every record
\* as they were; no operation leaves the terminal stage.
C12_TerminalAdvanceIsNoOp ==
    /\ (last.op = "advance_stage" /\ A = PREPARATION) =>
            /\ last.ret = False
            /\ last.exc = None
            /\ current_stage = A
            /\ current_message_index = last.pre.current_message_index
            /\ stage_history = last.pre.stage_history
            /\ chat_prompt = last.pre.ai_clients
    /\ (last.op # "__init__" /\ A = PREPARATION) => current_stage = PREPARATION

\* advance_stage has been called in the terminal stage, which holds a message
C12_Witness ==
    /\ last.op = "advance_stage"
    /\ A = PREPARATION
    /\ last.ret = False
    /\ Len(stage_history[PREPARATION].messages) = 1

----------------------------------------------------------------------------
(* C13 *)

\* C13: for a well-formed reply whose result field is false, the evaluator
\* returns the judgment False, which is not the None of an invalid reply.
C13_FalseResultIsNegative ==
    (last.requests = 1 /\ last.completion = Completion(ObjResultFalse)) =>
        /\ Judged
        /\ last.result = False
        /\ last.result # None

----------------------------------------------------------------------------
(* C14 *)

\* which outcome the last handle_message_add call had
TransitionOutcome ==
    IF ~IsRecord THEN "NoCall"
    ELSE IF last.exc = NotConfigured THEN "ConfigError"
    ELSE IF last.exc # None THEN "Raised"
    ELSE IF ChangedStage /\ is_final_stage(current_stage) THEN "AdvancedToTerminal"
    ELSE IF ChangedStage THEN "Advanced"
    ELSE IF Judged /\ last.result = None THEN "Unknown"
    ELSE "Stayed"

Returned == IsRecord /\ last.exc = None

\* C14: the value handle_message_add returns tells the caller which outcome
\* occurred: two calls that returned with different outcomes (stayed,
\* advanced, advanced to the terminal stage, Unknown) returned different
\* values.
C14_ReturnTellsOutcome ==
    [][(Returned /\ Returned' /\ TransitionOutcome # TransitionOutcome')
            => last.ret # last'.ret]_vars

\* C14 as amended: handle_message_add returns None whenever it returns,
\* whether it stayed, advanced, advanced to the terminal stage or got an
\* Unknown judgment; a configuration error is reported as its own outcome,
\* the ValueError of advance_stage raised out of the call.
C14_ReturnsNoneAlways ==
    /\ Returned => last.ret = None
    /\ (IsRecord /\ Positive /\ ~is_final_stage(A) /\ B \notin DOMAIN stage_config)
            => /\ last.exc = NotConfigured
               /\ TransitionOutcome = "ConfigError"

\* a call has returned after it advanced to the terminal stage
C14_Witness ==
    /\ Returned
    /\ TransitionOutcome = "AdvancedToTerminal"
    /\ last.ret = None
    /\ calls = 2

----------------------------------------------------------------------------
(* C15 *)

\* the completion request of the last call failed: the service raised, or
\* returned no choices or empty content
FailedRequest ==
    /\ last.requests >= 1
    /\ last.completion \in {APIError, Completion("")}

\* C15: an objective completion evaluation issues exactly one completion
\* request; when the request fails, the failure is raised out of the
\* evaluator and out of handle_message_add, with no second request, no
\* judgment, and no change of stage.
C15_FailedRequestPropagates ==
    /\ last.evaluator = OBJECTIVE_COMPLETION =>
            /\ last.requests = 1
            /\ Cardinality({i \in DOMAIN last.events : last.events[i] = "request"}) = 1
    /\ FailedRequest =>
            /\ last.exc = IF last.completion = APIError
                          THEN Raise("APIError", "request failed")
                          ELSE Raise("ValueError", "No completion choices returned")
            /\ ~Judged
            /\ last.result = None
            /\ last.events[Len(last.events)] = "raise"
            /\ current_stage = A
            /\ DOMAIN stage_history = DOMAIN last.pre.stage_history

\* a handle_message_add call has ended in the failure of its request
C15_Witness ==
    /\ IsRecord
    /\ FailedRequest
    /\ last.completion = APIError
    /\ last.exc.type = "APIError"
    /\ A = CONTEMPLATION

----------------------------------------------------------------------------
(* C16 *)

\* the stages reached from s by one, two or three steps of next_stage
After(s) ==
    {next_stage(s), next_stage(next_stage(s)),
     next_stage(next_stage(next_stage(s)))} \ {NoStage}

\* C16: next_stage orders the three stages as pre-contemplation,
\* contemplation, preparation: every stage has one successor or None, no
\* stage is reached again from its successor, preparation is the only stage
\* whose successor is None, is_final_stage is true exactly when next_stage
\* is None, and every transition made goes one place up in that order.
C16_NextStageIsTheOrder ==
    /\ next_stage(PRE_CONTEMPLATION) = CONTEMPLATION
    /\ next_stage(CONTEMPLATION) = PREPARATION
    /\ next_stage(PREPARATION) = NoStage
    /\ \A s \in Stage :
            /\ next_stage(s) \in Stage \cup {NoStage}
            /\ s \notin After(s)
            /\ next_stage(s) # NoStage => ordinal(next_stage(s)) = ordinal(s) + 1
            /\ is_final_stage(s) <=> next_stage(s) = NoStage
            /\ is_final_stage(s) <=> s = PREPARATION
    /\ ChangedStage => ordinal(current_stage) = ordinal(A) + 1

\* both successors have been taken, from the first stage to the last
C16_Witness ==
    /\ initial_stage = PRE_CONTEMPLATION
    /\ stage_history[PRE_CONTEMPLATION].end # Open
    /\ A = CONTEMPLATION
    /\ current_stage = PREPARATION
    /\ is_final_stage(current_stage)

----------------------------------------------------------------------------
(* C17 *)

\* the last operation evaluated stage A, whose policy entry names no known method
UnknownMethod ==
    /\ last.op \in {"handle_message_add", "evaluate_stage"}
    /\ A \in DOMAIN stage_config
    /\ stage_config[A].method \notin {OBJECTIVE_COMPLETION, TABLE_COMPARISON}

\* C17: a policy entry whose method is neither ObjectiveCompletion nor
\* TableComparison makes evaluate_stage raise ValueError; no request is sent
\* to the Completion Service, no evaluator runs, and the stage stays as it was.
C17_UnknownMethodIsFatal ==
    UnknownMethod =>
        /\ last.exc = Raise("ValueError", "Invalid/unsupported evaluation method")
        /\ last.requests = 0
        /\ last.sent = <<>>
        /\ last.evaluator = NoMethod
        /\ current_stage = A
        /\ stage_history[A].end = Open

\* evaluate_stage has met the unsupported entry, directly and after a message
C17_Witness ==
    /\ UnknownMethod
    /\ A = PRE_CONTEMPLATION
    /\ last.op = "handle_message_add"
    /\ last.exc.type = "ValueError"
    /\ Len(stage_history[A].messages) > 0

----------------------------------------------------------------------------
(* C18 *)

\* the prompts directory holds one prompt file per evaluation method
OneFilePerMethod ==
    \A m \in EvaluationMethods : prompts[<<prompt_file(m)>>].kind = "file"

\* C18: with one prompt file per evaluation method in the prompts directory,
\* constructing an Evaluator succeeds and yields one client per method, each
\* holding the content of its method's prompt file as its system instruction.
C18_OneClientPerPromptFile ==
    (evaluator.attempted /\ OneFilePerMethod) =>
        /\ evaluator.exc = None
        /\ DOMAIN evaluator.ai_clients = EvaluationMethods
        /\ \A m \in EvaluationMethods :
                evaluator.ai_clients[m] = Client_init(prompts[<<prompt_file(m)>>].content)

----------------------------------------------------------------------------
(* C19 *)

\* C19: whatever the Completion Service replies, the value
\* evaluate_objective_completion returns is True, False or None, never a
\* string or number taken from the reply's result field, and the
\* StageManager then advances, stays, or logs an invalid response.
C19_JudgmentIsBoolOrNone ==
    (last.evaluator = OBJECTIVE_COMPLETION /\ Judged) =>
        /\ last.result \in {True, False, None}
        /\ IsRecord =>
            \/ "log_info" \in Range(last.events) /\ last.result = True
            \/ "log_error" \in Range(last.events) /\ last.result = None
            \/ current_stage = A /\ last.result = False

----------------------------------------------------------------------------
(* C20 *)

\* the messages of the handle_message_add calls that began in stage s
MessagesIn(s) ==
    LET F[i \in 0..Len(message_log)] ==
            IF i = 0 THEN <<>>
            ELSE IF message_log[i].stage = s
                 THEN Append(F[i - 1], message_log[i].message)
                 ELSE F[i - 1]
    IN  F[Len(message_log)]

\* the calls before the last one that began in stage s
EarlierIn(s) == {i \in 1..(Len(message_log) - 1) : message_log[i].stage = s}

\* C20: calls that ended in an Unknown or negative judgment do not block
\* progress: they leave the stage as it was, and the next call in a
\* non-terminal stage A with a configured successor that gets a positive
\* judgment advances to A's successor and closes A's record, which then
\* holds the message of every call made in A, in the order of the calls.
C20_UnknownDoesNotBlock ==
    /\ (IsRecord /\ NegativeOrUnknown) =>
            /\ current_stage = A
            /\ last.exc = None
            /\ stage_history[A].messages = MessagesIn(A)
    /\ (IsRecord /\ Positive /\ ~is_final_stage(A) /\ B \in DOMAIN stage_config) =>
            /\ current_stage = B
            /\ stage_history[A].end # Open
            /\ stage_history[A].messages = MessagesIn(A)

\* a call judged Unknown in A, then a call judged positive: A is closed
\* with both messages in the order they were given
C20_Witness ==
    /\ IsRecord /\ Positive /\ B \in DOMAIN stage_config
    /\ current_stage = B
    /\ Len(message_log) = 2
    /\ EarlierIn(A) = {1}
    /\ message_log[1].judgment = None
    /\ message_log[1].message # message_log[2].message
    /\ stage_history[A].messages = <<message_log[1].message, message_log[2].message>>

----------------------------------------------------------------------------
(* C21 *)

\* C21: after any evaluations and resets, the transcript of each evaluation
\* client begins with the system instruction it was constructed with, its
\* content unchanged, and it is the only system entry; a client that was
\* just reset holds nothing else.
C21_TranscriptStartsWithInstruction ==
    /\ DOMAIN chat_prompt = EvaluationMethods
    /\ \A m \in EvaluationMethods :
            /\ Len(chat_prompt[m]) >= 1
            /\ chat_prompt[m][1] = Msg("system", original_system_prompt(m))
            /\ \A i \in 2..Len(chat_prompt[m]) : chat_prompt[m][i].role # "system"
    /\ Judged => chat_prompt[last.evaluator] = Client_init(original_system_prompt(last.evaluator))

\* one evaluation ended with a reset, the next one failed and left its
\* request in the transcript, behind the instruction
C21_Witness ==
    /\ Len(message_log) = 2
    /\ message_log[1].judgment = None
    /\ last.exc # None /\ last.requests = 1
    /\ Len(chat_prompt[OBJECTIVE_COMPLETION]) > 1
    /\ chat_prompt[OBJECTIVE_COMPLETION][1] = Msg("system", original_system_prompt(OBJECTIVE_COMPLETION))

----------------------------------------------------------------------------
(* C22 *)

\* the last CogniLLM operation was a send_message turn
IsTurn == turn.op = "send_message"

\* the transcript now is the transcript before with a user entry and an
\* assistant entry behind it
GrewByOneExchange(now, before) ==
    /\ Len(now) = Len(before) + 2
    /\ SubSeq(now, 1, Len(before)) = before
    /\ now[Len(now) - 1].role = "user"
    /\ now[Len(now)].role = "assistant"

\* the brain replied in the last turn with a text that is not JSON
BrainReplyNotJson ==
    /\ IsTurn
    /\ brain_client[Len(brain_client)].role = "assistant"
    /\ json_loads(brain_client[Len(brain_client)].content[1]).exc # None

\* C22 as stated: every send_message turn issues exactly two completion
\* requests, to the brain client and then to the message-generator client,
\* also when the brain reply is not JSON (the cognitive state is then None),
\* and a turn that succeeds adds one user entry and one assistant entry to
\* each client's transcript.
C22_TwoRequestsEveryTurn ==
    IsTurn =>
        /\ turn.requests = <<BRAIN, MESSAGE_GENERATOR>>
        /\ BrainReplyNotJson => turn.thoughts = NoneValue
        /\ turn.exc = None =>
            /\ GrewByOneExchange(brain_client, turn.pre.brain_client)
            /\ GrewByOneExchange(message_generator_client, turn.pre.message_generator_client)

\* C22, amended: a send_message turn issues the brain request first and the
\* message-generator request second, and nothing else; the second request
\* is missing only in a turn that raised before it (the brain request
\* failed, or a JSON reply that is not an object could not be merged); it
\* is issued when the brain reply is not JSON, with the cognitive state
\* None; a turn that succeeds has issued both and adds one user entry and
\* one assistant entry to each client's transcript.
C22_TwoRequestsUnlessBrainRaises ==
    IsTurn =>
        /\ turn.requests \in {<<BRAIN>>, <<BRAIN, MESSAGE_GENERATOR>>}
        /\ turn.requests = <<BRAIN>> =>
            /\ turn.exc # None
            /\ message_generator_client = turn.pre.message_generator_client
        /\ BrainReplyNotJson =>
            /\ turn.requests = <<BRAIN, MESSAGE_GENERATOR>>
            /\ turn.thoughts = NoneValue
        /\ turn.exc = None =>
            /\ turn.requests = <<BRAIN, MESSAGE_GENERATOR>>
            /\ GrewByOneExchange(brain_client, turn.pre.brain_client)
            /\ GrewByOneExchange(message_generator_client, turn.pre.message_generator_client)

\* a second turn succeeded although the brain's reply was not JSON
C22_Witness ==
    /\ IsTurn /\ turns = 2
    /\ BrainReplyNotJson
    /\ turn.exc = None
    /\ turn.requests = <<BRAIN, MESSAGE_GENERATOR>>
    /\ Len(message_generator_client) = Len(turn.pre.message_generator_client) + 2
    /\ Len(turn.pre.brain_client) > 1

----------------------------------------------------------------------------
(* C23 *)

\* advance_stage raised its configuration error in the last operation
AdvanceRaised == last.op \in {"advance_stage", "handle_message_add"} /\ last.exc = NotConfigured

\* C23: when advance_stage raises because the successor has no policy
\* entry, it has changed nothing: the stage is the one before, its record
\* is still open with end = -1, the successor has no record, and a direct
\* call leaves the whole StageManager as it was.
C23_FailedAdvanceChangesNothing ==
    AdvanceRaised =>
        /\ B \notin DOMAIN stage_config
        /\ current_stage = A
        /\ stage_history[A].end = Open
        /\ stage_history[A].start = last.pre.stage_history[A].start
        /\ B \notin DOMAIN stage_history
        /\ DOMAIN stage_history = DOMAIN last.pre.stage_history
        /\ last.op = "advance_stage" => Self = last.pre

\* the error was raised once by a direct call and once out of a call that
\* recorded a message and got a positive judgment
C23_Witness ==
    /\ AdvanceRaised
    /\ last.op = "advance_stage"
    /\ Len(message_log) = 1
    /\ message_log[1].stage = A
    /\ message_log[1].judgment = True
    /\ stage_history[A].messages = <<message_log[1].message>>

----------------------------------------------------------------------------
(* C24 *)

\* C24: in every state the number of messages of a record is the length of
\* its index range: current_message_index - start for the open record of
\* the current stage, end - start for a closed record; calls that ended in
\* an exception keep it so, and so does any integer message_index.
C24_MessagesFillTheRange ==
    \A s \in DOMAIN stage_history :
        LET r == stage_history[s] IN
        IF s = current_stage
        THEN Len(r.messages) = current_message_index - r.start
        ELSE Len(r.messages) = r.end - r.start

\* a closed record with one message, and an open one whose only message
\* was recorded by a call that raised
C24_Witness ==
    /\ IsRecord /\ last.exc # None
    /\ Len(message_log) = 2
    /\ message_log[1].stage # current_stage
    /\ Len(stage_history[message_log[1].stage].messages) = 1
    /\ stage_history[message_log[1].stage].end = message_index + 1
    /\ Len(stage_history[current_stage].messages) = 1
    /\ current_message_index = message_index + 2

----------------------------------------------------------------------------
(* C25 *)

\* the last handle_message_add call ended in an exception
RecordRaised == IsRecord /\ last.exc # None

\* the last two calls were given the same message in the same stage
Retried ==
    /\ Len(message_log) >= 2
    /\ message_log[Len(message_log) - 1].message = last.message
    /\ message_log[Len(message_log) - 1].stage = A

\* C25: a handle_message_add call that ends in an exception, whichever it
\* is, leaves its message appended to the record of the stage and the index
\* incremented, and the stage as it was; a retry with the same message
\* therefore leaves the message in the record twice.
C25_NothingIsRolledBack ==
    RecordRaised =>
        /\ current_stage = A
        /\ stage_history[A].messages = Append(last.pre.stage_history[A].messages, last.message)
        /\ current_message_index = last.pre.current_message_index + 1
        /\ Retried =>
            LET n == Len(stage_history[A].messages) IN
            /\ n >= 2
            /\ stage_history[A].messages[n - 1] = last.message
            /\ stage_history[A].messages[n] = last.message

\* the Completion Service failed twice for the same message: the record
\* holds it twice and the index has moved by two
C25_Witness ==
    /\ RecordRaised /\ Retried
    /\ last.exc.type = "APIError"
    /\ message_log[1].judgment = last.exc
    /\ stage_history[A].messages = <<last.message, last.message>>
    /\ current_message_index = message_index + 2

----------------------------------------------------------------------------
(* C26 *)

\* an evaluator was invoked by the last operation
Evaluated == last.evaluator # NoMethod

\* C26: the message list handed to the evaluator holds exactly the messages
\* recorded during the visit of the current stage, in order, and none
\* recorded in an earlier stage; the first evaluation a handle_message_add
\* makes in a stage judges the one message just recorded.
C26_EvaluatorSeesThisVisitOnly ==
    Evaluated =>
        /\ last.history = MessagesIn(A)
        /\ Len(last.history) = current_message_index - stage_history[A].start
        /\ (IsRecord /\ EarlierIn(A) = {}) => last.history = <<last.message>>

\* after a transition made with one message, the evaluation of the next
\* message saw that message alone
C26_Witness ==
    /\ IsRecord /\ Evaluated
    /\ Len(message_log) = 2
    /\ message_log[1].stage # A
    /\ message_log[1].judgment = True
    /\ message_log[1].message # last.message
    /\ last.history = <<last.message>>

----------------------------------------------------------------------------
(* C27 *)

\* the stages from s to t in the order of the taxonomy
FromTo(s, t) == {u \in Stage : ordinal(s) <= ordinal(u) /\ ordinal(u) <= ordinal(t)}

\* C27: in every state stage_history has one record for each stage from
\* the initial stage up to the current stage, in the order of the taxonomy,
\* and none for a stage before the initial one or after the current one.
C27_RecordsFromInitialToCurrent ==
    /\ ordinal(initial_stage) <= ordinal(current_stage)
    /\ DOMAIN stage_history = FromTo(initial_stage, current_stage)
    /\ \A s \in DOMAIN stage_history : DOMAIN stage_history[s] = {"start", "end", "messages"}

\* started in the second stage and advanced: two records, none for the
\* first stage
C27_Witness ==
    /\ initial_stage = CONTEMPLATION
    /\ current_stage = PREPARATION
    /\ DOMAIN stage_history = {CONTEMPLATION, PREPARATION}
    /\ PRE_CONTEMPLATION \notin DOMAIN stage_history

----------------------------------------------------------------------------
(* C28 *)

\* the last handle_message_add call began in the terminal stage, which has
\* a policy entry
RecordAtTerminal == IsRecord /\ is_final_stage(A) /\ A \in DOMAIN stage_config

\* C28: in the terminal stage with a policy entry handle_message_add goes
\* on recording the message, incrementing the index and invoking the
\* evaluator; a positive judgment changes nothing more: the stage stays
\* terminal, its record stays open with end = -1, no record is added and
\* nothing is raised.
C28_TerminalStageKeepsRecording ==
    RecordAtTerminal =>
        /\ stage_history[A].messages = Append(last.pre.stage_history[A].messages, last.message)
        /\ current_message_index = last.pre.current_message_index + 1
        /\ last.evaluator = stage_config[A].method
        /\ last.history = stage_history[A].messages
        /\ last.requests = 1
        /\ Positive =>
            /\ current_stage = A
            /\ is_final_stage(current_stage)
            /\ stage_history[A].end = Open
            /\ DOMAIN stage_history = DOMAIN last.pre.stage_history
            /\ last.exc = None

\* the second message in the terminal stage got a positive judgment
C28_Witness ==
    /\ RecordAtTerminal /\ Positive
    /\ current_stage = PREPARATION
    /\ Len(stage_history[PREPARATION].messages) = 2
    /\ stage_history[PREPARATION].end = Open
    /\ "final" \in Range(last.events)

----------------------------------------------------------------------------
(* C29 *)

\* the number of handle_message_add calls so far that got a positive judgment
PositiveJudgments ==
    Cardinality({i \in DOMAIN message_log : message_log[i].judgment = True})

\* C29: with every stage configured for objective completion and messages
\* recorded on and on, a Completion Service that keeps returning a positive
\* judgment eventually brings the StageManager to the terminal stage, where
\* it stays for ever; every positive judgment moves it one stage up until
\* then, so from the first stage it takes exactly two.
C29_EventuallyTerminalForever ==
    /\ <>[](current_stage = PREPARATION)
    /\ [][current_stage = PREPARATION => current_stage' = PREPARATION]_vars
    /\ [](ordinal(current_stage) =
            IF ordinal(initial_stage) + PositiveJudgments > 3
            THEN 3 ELSE ordinal(initial_stage) + PositiveJudgments)

\* from the first stage the terminal stage was reached with the second
\* positive judgment, after a reply that was not one
C29_Witness ==
    /\ initial_stage = PRE_CONTEMPLATION
    /\ current_stage = PREPARATION
    /\ PositiveJudgments = 2
    /\ Len(message_log) = 3
    /\ Positive
    /\ A = CONTEMPLATION

----------------------------------------------------------------------------
(* C30 *)

\* the last handle_message_add call began in a stage without policy entry
RecordWithoutPolicy == IsRecord /\ A \notin DOMAIN stage_config

============================================================================
